---- MODULE Spec2Model ----
(***************************************************************************)
(* Model of src/src/MomentDateRanges.js: DateRange and PeriodRange.        *)
(*                                                                         *)
(* Dates are moment objects.  A moment object is MUTABLE: add(n, unit) and *)
(* subtract(n, unit) change the receiver in place and return it.  The      *)
(* model therefore keeps a heap of moment objects (heap: reference -> day  *)
(* number) and an interval's _range holds REFERENCES into that heap.  Day  *)
(* numbers are offsets from a fixed calendar day later than 1970-01-01.    *)
(*                                                                         *)
(* The base class MomentDateRange and the module utils are not part of the *)
(* source at hand; what the model needs of them (the base constructor, the *)
(* field getters, replace, fromDate, isValidDate) follows spec.md.         *)
(***************************************************************************)
EXTENDS Integers, Sequences, FiniteSets, TLC

\* Bounds of the model.
MaxDay == 3
MaxOps == 2
MaxNav == 2

Days == 1..MaxDay

\* The null reference (JavaScript null / undefined for a bound).
NullRef == "null"

\* References of the moment objects owned by the two interval slots.
Refs == {"cL", "cU", "rL", "rU"}

\* An optional by-value day: <<>> is null, <<d>> is the day d.
None == <<>>
Some(d) == <<d>>

(***************************************************************************)
(* Inputs.  A bound argument is absent (undefined), null, a falsy value    *)
(* that is no date ('' / 0 / false), a non-empty string that is no date,   *)
(* or a date string.  A flag argument is absent or a boolean.              *)
(***************************************************************************)
BoundArgs ==
    {[k |-> x, d |-> 0] : x \in {"absent", "null", "falsy", "invalid"}}
        \cup {[k |-> "date", d |-> x] : x \in Days}

FlagArgs == {<<>>, <<TRUE>>, <<FALSE>>}

Settings ==
    [lower : BoundArgs, upper : BoundArgs, lowerInc : FlagArgs, upperInc : FlagArgs]

\* new DateRange(): settings = {}.
NoSettings ==
    [lower |-> [k |-> "absent", d |-> 0], upper |-> [k |-> "absent", d |-> 0],
     lowerInc |-> <<>>, upperInc |-> <<>>]

Periods == {"day", "week"}

\* JavaScript truthiness of a bound argument (settings.lower && ...).
Truthy(b) == b.k \in {"invalid", "date"}

\* utils.isValidDate: one of the two textual formats or a valid moment.
isValidDate(b) == b.k = "date"

(***************************************************************************)
(* moment                                                                  *)
(***************************************************************************)
\* curr.add(n, 'day'): changes the object curr refers to, in place.
momentAdd(h, curr, n) == [h EXCEPT ![curr] = @ + n]

\* curr.subtract(n, 'day'): changes the object curr refers to, in place.
momentSubtract(h, curr, n) == [h EXCEPT ![curr] = @ - n]

\* The value of an optional reference.
Deref(h, ref) == IF ref = NullRef THEN None ELSE Some(h[ref])

(***************************************************************************)
(* _internalRange and the generic range base                               *)
(***************************************************************************)
internalRange(lo, up, li, ui, em) ==
    [lower |-> lo, upper |-> up, lowerInc |-> li, upperInc |-> ui, empty |-> em]

emptyInternalRange == internalRange(NullRef, NullRef, FALSE, FALSE, TRUE)

\* MomentDateRange constructor: the bounds parsed into moment objects of
\* their own (lref, uref), the flags defaulted (lowerInc true, upperInc false).
baseRange(s, lref, uref) ==
    internalRange(IF s.lower.k = "date" THEN lref ELSE NullRef,
                  IF s.upper.k = "date" THEN uref ELSE NullRef,
                  IF s.lowerInc = <<>> THEN TRUE ELSE s.lowerInc[1],
                  IF s.upperInc = <<>> THEN FALSE ELSE s.upperInc[1],
                  FALSE)

baseHeap(h, s, lref, uref) ==
    [h EXCEPT ![lref] = s.lower.d, ![uref] = s.upper.d]

\* The field getters of the base: they hand out the _range's own values.
lower(o) == o.range.lower
upper(o) == o.range.upper
lowerInc(o) == o.range.lowerInc
upperInc(o) == o.range.upperInc

\* Range.replace(settings), in place: the four named fields are set.
replace(rng, s) ==
    [rng EXCEPT !.lower = s.lower, !.upper = s.upper,
                !.lowerInc = s.lowerInc, !.upperInc = s.upperInc]

(***************************************************************************)
(* DateRange                                                               *)
(***************************************************************************)
\* next(curr, step): curr.add(1, step), step is always 'day'.
next(h, curr) == momentAdd(h, curr, 1)

\* prev(curr, step): curr.subtract(1, step).
prev(h, curr) == momentSubtract(h, curr, 1)

\* Lines 27-35: which bound the constructor rejects, "" when none.
invalidBound(s) ==
    IF s # NoSettings /\ Truthy(s.lower) /\ ~isValidDate(s.lower) THEN "lower"
    ELSE IF s # NoSettings /\ Truthy(s.upper) /\ ~isValidDate(s.upper) THEN "upper"
    ELSE ""

\* Lines 38-45: the heap after the two bound adjustments.
adjustedHeap(h, b) ==
    LET h1 == IF b.lower # NullRef /\ ~b.lowerInc THEN next(h, b.lower) ELSE h
    IN IF b.upper # NullRef /\ b.upperInc THEN next(h1, b.upper) ELSE h1

\* Line 46 with > for >=: equal adjusted bounds no longer collapse.
collapsesStrict(h, b) ==
    b.lower # NullRef /\ b.upper # NullRef /\ h[b.lower] > h[b.upper]

\* Line 46: this.lower && this.upper && lb >= ub.
collapses(h, b) ==
    b.lower # NullRef /\ b.upper # NullRef /\ h[b.lower] >= h[b.upper]

\* Lines 47 and 50: the _range the constructor assigns.
assignedRange(h, b) ==
    IF collapses(h, b) THEN emptyInternalRange
    ELSE internalRange(b.lower, b.upper, TRUE, FALSE, FALSE)

\* Lines 48 and 51: the settings of the constructor's replace call.
replaceSettings(h, b) ==
    IF collapses(h, b)
    THEN [upper |-> NullRef, lower |-> NullRef, lowerInc |-> FALSE, upperInc |-> FALSE]
    ELSE [upper |-> b.upper, lower |-> b.lower, lowerInc |-> TRUE, upperInc |-> FALSE]

\* The _range of a constructed instance of class cls.  DateRange: replace
\* acts on the instance.  PeriodRange (lines 188-190): replace acts on
\* this.daterange, a DateRange made for the call, and leaves this alone.
constructedRange(cls, h, b) ==
    IF cls = "DateRange" THEN replace(assignedRange(h, b), replaceSettings(h, b))
    ELSE assignedRange(h, b)

\* The object the constructor's replace call acts on.
replaceReceiver(cls) == IF cls = "DateRange" THEN "this" ELSE "this.daterange"

\* An interval object: its class, its _range and its period tag ("" when
\* the tag was never set); path records the navigation calls that made it.
Instance(cls, rng, period, path) ==
    [cls |-> cls, range |-> rng, period |-> period, path |-> path]

NoInstance == Instance("none", internalRange(NullRef, NullRef, FALSE, FALSE, FALSE), "", <<>>)

\* The _range of o by value.
TupleVal(h, o) ==
    [lower |-> Deref(h, lower(o)), upper |-> Deref(h, upper(o)),
     lowerInc |-> o.range.lowerInc, upperInc |-> o.range.upperInc,
     empty |-> o.range.empty]

\* last(): null without an upper bound, else prev(this.upper, this.step).
last(h, o) ==
    IF upper(o) = NullRef THEN [heap |-> h, ret |-> NullRef]
    ELSE [heap |-> prev(h, upper(o)), ret |-> upper(o)]

\* endsWith(other) for an other that parses as a date: other is a date
\* string (k = "date") or a moment object (k = "moment", by reference).
\* moment(other, formats) at line 105 copies other AFTER last() has run.
endsWith(h, o, other) ==
    LET l == last(h, o)
        test == IF other.k = "moment" THEN l.heap[other.ref] ELSE other.d
    IN IF l.ret = NullRef THEN [heap |-> l.heap, ret |-> "TypeError"]
       ELSE [heap |-> l.heap,
             ret |-> IF l.heap[l.ret] = test THEN "true" ELSE "false"]

\* length() counting both ends: one day too many.
lengthInclusive(h, o) ==
    IF upper(o) = NullRef \/ lower(o) = NullRef
    THEN [kind |-> "UnboundedLengthError", n |-> 0]
    ELSE [kind |-> "ok", n |-> h[upper(o)] - h[lower(o)] + 1]

\* length(): Math.round(moment.duration(upper.diff(lower)).asDays()).
length(h, o) ==
    IF upper(o) = NullRef \/ lower(o) = NullRef
    THEN [kind |-> "UnboundedLengthError", n |-> 0]
    ELSE [kind |-> "ok", n |-> h[upper(o)] - h[lower(o)]]

\* [Symbol.iterator](): the closure's variables start and last, by reference.
NoIterator == [active |-> FALSE, start |-> NullRef, last |-> NullRef, done |-> FALSE]

iterator(h, o) ==
    LET l == last(h, o)
    IN IF lower(o) = NullRef
       THEN [heap |-> l.heap, it |-> NoIterator, thrown |-> "TypeError"]
       ELSE [heap |-> prev(l.heap, lower(o)),
             it |-> [active |-> TRUE, start |-> lower(o), last |-> l.ret, done |-> FALSE],
             thrown |-> ""]

\* iterator.next(): line 119, start > last; a moment after 1970 is > null.
iterDone(h, i) == IF i.last = NullRef THEN TRUE ELSE h[i.start] > h[i.last]

(***************************************************************************)
(* PeriodRange                                                             *)
(***************************************************************************)
\* The generic fromDate of the base: the period that holds day, half open.
spanStart(day, period) == IF period = "week" THEN day - (day % 7) ELSE day
spanEnd(day, period) == spanStart(day, period) + (IF period = "week" THEN 7 ELSE 1)

\* Line 166 left out: the new PeriodRange keeps the _range of its constructor.
keptRange(newRange, spanRange) == newRange

\* Line 166: newSpan._range = span._range.
copiedRange(newRange, spanRange) == spanRange

\* PeriodRange.fromDate(day, period = 'day'), the result held in lref, uref.
fromDate(h, day, period, path, lref, uref) ==
    LET p == IF period = "" THEN "day" ELSE period
        h1 == [h EXCEPT ![lref] = spanStart(day, p), ![uref] = spanEnd(day, p)]
        span == internalRange(lref, uref, TRUE, FALSE, FALSE)
        newSpan == constructedRange("PeriodRange", h1, baseRange(NoSettings, lref, uref))
    IN [heap |-> h1,
        inst |-> Instance("PeriodRange", copiedRange(newSpan, span), p, path)]

\* nextPeriod(): this.fromDate(this.upper.format(), this.period).
nextPeriod(h, o, path) ==
    IF upper(o) = NullRef
    THEN [heap |-> h, inst |-> NoInstance, thrown |-> "TypeError"]
    ELSE [heap |-> fromDate(h, h[upper(o)], o.period, path, "rL", "rU").heap,
          inst |-> fromDate(h, h[upper(o)], o.period, path, "rL", "rU").inst,
          thrown |-> ""]

\* prevPeriod(): this.fromDate(this.prev(this.lower), this.period).
prevPeriod(h, o, path) ==
    IF lower(o) = NullRef
    THEN [heap |-> h, inst |-> NoInstance, thrown |-> "TypeError"]
    ELSE LET h1 == prev(h, lower(o))
         IN [heap |-> fromDate(h1, h1[lower(o)], o.period, path, "rL", "rU").heap,
             inst |-> fromDate(h1, h1[lower(o)], o.period, path, "rL", "rU").inst,
             thrown |-> ""]

(***************************************************************************)
(* State                                                                   *)
(***************************************************************************)
VARIABLES
    pc,        \* "start": nothing constructed; "ready"; "failed": constructor threw
    call,      \* the most recent call: its name and its arguments
    thrown,    \* what the most recent call threw, "" when it returned
    heap,      \* the moment objects: reference -> day
    cur,       \* the interval the caller constructed
    res,       \* the interval the most recent nextPeriod / prevPeriod returned
    recv,      \* the object the constructor's replace call acted on
    built,     \* cur's tuple by value when its construction returned
    pre,       \* cur's tuple by value before the most recent call
    it,        \* the iterator most recently made from cur
    yielded,   \* the values it has produced with done = false, by value
    held,      \* the reference the most recent last() returned
    lastVal,   \* the value the most recent last() returned, by value
    lenRet,    \* what the most recent length() returned or threw
    ewRet,     \* what the most recent endsWith() returned or threw
    plain,     \* TRUE while no call handed one of cur's own bounds to next /
               \* prev and no call was made while an iteration was under way
    ops,       \* the number of calls made on cur, navigation apart
    navs       \* the number of nextPeriod / prevPeriod calls made

vars == <<pc, call, thrown, heap, cur, res, recv, built, pre, it, yielded,
          held, lastVal, lenRet, ewRet, plain, ops, navs>>

Call(op, settings, other) == [op |-> op, settings |-> settings, other |-> other]

NoOther == [k |-> "none", d |-> 0, ref |-> NullRef]

NoTuple == TupleVal([r \in Refs |-> 0], NoInstance)

NoLength == [kind |-> "none", n |-> 0]

Init ==
    /\ pc = "start"
    /\ call = Call("none", NoSettings, NoOther)
    /\ thrown = ""
    /\ heap = [r \in Refs |-> 0]
    /\ cur = NoInstance
    /\ res = NoInstance
    /\ recv = ""
    /\ built = NoTuple
    /\ pre = NoTuple
    /\ it = NoIterator
    /\ yielded = <<>>
    /\ held = NullRef
    /\ lastVal = None
    /\ lenRet = NoLength
    /\ ewRet = ""
    /\ plain = TRUE
    /\ ops = 0
    /\ navs = 0

\* What a call on cur leaves alone besides what it names.
Observed == <<it, yielded, held, lastVal, lenRet, ewRet>>

Counters == <<ops, navs>>

\* No iteration is under way.
Quiet == ~(it.active /\ ~it.done)

(***************************************************************************)
(* Construction                                                            *)
(***************************************************************************)
\* new DateRange(settings) and new PeriodRange(settings), lines 26-65, 159-161.
Construct(cls, s) ==
    /\ pc = "start"
    /\ call' = Call(cls, s, NoOther)
    /\ IF invalidBound(s) # ""
       THEN /\ pc' = "failed"
            /\ thrown' = invalidBound(s)
            /\ UNCHANGED <<heap, cur, recv, built>>
       ELSE LET b == baseRange(s, "cL", "cU")
                h == adjustedHeap(baseHeap(heap, s, "cL", "cU"), b)
                o == Instance(cls, constructedRange(cls, h, b), "", <<>>)
            IN /\ pc' = "ready"
               /\ thrown' = ""
               /\ heap' = h
               /\ cur' = o
               /\ recv' = replaceReceiver(cls)
               /\ built' = TupleVal(h, o)
    /\ UNCHANGED <<res, pre, plain, Counters, Observed>>

NewDateRange == \E s \in Settings : Construct("DateRange", s)

NewPeriodRange == \E s \in Settings : Construct("PeriodRange", s)

\* new PeriodRange().fromDate(day, period), lines 163-169.
FromDate ==
    \E day \in Days, period \in Periods \cup {""} :
        LET r == fromDate(heap, day, period, <<>>, "cL", "cU")
        IN /\ pc = "start"
           /\ pc' = "ready"
           /\ call' = Call("fromDate", NoSettings, [k |-> period, d |-> day, ref |-> NullRef])
           /\ thrown' = ""
           /\ heap' = r.heap
           /\ cur' = r.inst
           /\ recv' = replaceReceiver("PeriodRange")
           /\ built' = TupleVal(r.heap, r.inst)
           /\ UNCHANGED <<res, pre, plain, Counters, Observed>>

(***************************************************************************)
(* Calls on the constructed interval                                       *)
(***************************************************************************)
Ready == pc = "ready" /\ ops < MaxOps

\* The moment objects a caller can hand to next / prev: one of its own
\* ("fresh") or a bound it read from the interval.
OwnBounds == {lower(cur), upper(cur)} \ {NullRef}

Step(op, arg) ==
    /\ Ready
    /\ plain' = (plain /\ Quiet /\ arg = "fresh")
    /\ call' = Call(op, NoSettings, NoOther)
    /\ thrown' = ""
    /\ pre' = TupleVal(heap, cur)
    /\ ops' = ops + 1
    /\ UNCHANGED <<pc, cur, res, recv, built, navs, Observed>>

\* next(curr), lines 75-80.
Next_ ==
    \E arg \in OwnBounds \cup {"fresh"} :
        /\ Step("next", arg)
        /\ heap' = IF arg = "fresh" THEN heap ELSE next(heap, arg)

\* prev(curr), lines 90-92.
Prev ==
    \E arg \in OwnBounds \cup {"fresh"} :
        /\ Step("prev", arg)
        /\ heap' = IF arg = "fresh" THEN heap ELSE prev(heap, arg)

\* last(), lines 94-99.
Last ==
    /\ Ready
    /\ call' = Call("last", NoSettings, NoOther)
    /\ plain' = (plain /\ Quiet)
    /\ thrown' = ""
    /\ pre' = TupleVal(heap, cur)
    /\ ops' = ops + 1
    /\ heap' = last(heap, cur).heap
    /\ held' = last(heap, cur).ret
    /\ lastVal' = Deref(heap', held')
    /\ UNCHANGED <<pc, cur, res, recv, built, it, yielded, lenRet, ewRet, navs>>

\* The arguments of endsWith that parse as a date: a date string, or the
\* moment object a last() call returned.
Others ==
    {[k |-> "date", d |-> x, ref |-> NullRef] : x \in Days}
        \cup (IF held = NullRef THEN {} ELSE {[k |-> "moment", d |-> 0, ref |-> held]})

\* endsWith(other), lines 101-109.
EndsWith ==
    \E other \in Others :
        LET r == endsWith(heap, cur, other)
        IN /\ Ready
           /\ call' = Call("endsWith", NoSettings, other)
           /\ plain' = (plain /\ Quiet)
           /\ thrown' = IF r.ret = "TypeError" THEN "TypeError" ELSE ""
           /\ pre' = TupleVal(heap, cur)
           /\ ops' = ops + 1
           /\ heap' = r.heap
           /\ ewRet' = r.ret
           /\ UNCHANGED <<pc, cur, res, recv, built, it, yielded, held, lastVal, lenRet, navs>>

\* length(), lines 135-140.
Length ==
    /\ Ready
    /\ call' = Call("length", NoSettings, NoOther)
    /\ plain' = (plain /\ Quiet)
    /\ lenRet' = length(heap, cur)
    /\ thrown' = IF lenRet'.kind = "ok" THEN "" ELSE lenRet'.kind
    /\ pre' = TupleVal(heap, cur)
    /\ ops' = ops + 1
    /\ UNCHANGED <<pc, heap, cur, res, recv, built, it, yielded, held, lastVal, ewRet, navs>>

\* [Symbol.iterator](), lines 111-127: a new iterator.
Iterate ==
    LET r == iterator(heap, cur)
    IN /\ Ready
       /\ call' = Call("iterator", NoSettings, NoOther)
       /\ plain' = (plain /\ Quiet)
       /\ thrown' = r.thrown
       /\ pre' = TupleVal(heap, cur)
       /\ ops' = ops + 1
       /\ heap' = r.heap
       /\ it' = r.it
       /\ yielded' = <<>>
       /\ UNCHANGED <<pc, cur, res, recv, built, held, lastVal, lenRet, ewRet, navs>>

\* iterator.next(), lines 117-124, called until it answers done.
IterNext ==
    /\ pc = "ready"
    /\ it.active /\ ~it.done
    /\ call' = Call("iterator.next", NoSettings, NoOther)
    /\ thrown' = ""
    /\ pre' = TupleVal(heap, cur)
    /\ heap' = next(heap, it.start)
    /\ it' = [it EXCEPT !.done = iterDone(heap', it)]
    /\ yielded' = IF it'.done THEN yielded ELSE Append(yielded, heap'[it.start])
    /\ UNCHANGED <<pc, cur, res, recv, built, held, lastVal, lenRet, ewRet, plain, Counters>>

\* The PeriodRange objects a caller can navigate from.
Receivers == {x \in {"cur", "res"} : (IF x = "cur" THEN cur ELSE res).cls = "PeriodRange"}

Navigate(op, x, r) ==
    /\ pc = "ready" /\ navs < MaxNav
    /\ call' = Call(op, NoSettings, NoOther)
    /\ plain' = (plain /\ Quiet)
    /\ thrown' = r.thrown
    /\ pre' = TupleVal(heap, cur)
    /\ navs' = navs + 1
    /\ heap' = r.heap
    /\ res' = IF r.thrown = "" THEN r.inst ELSE res
    /\ UNCHANGED <<pc, cur, recv, built, ops, Observed>>

\* nextPeriod(), lines 192-194.
NextPeriod ==
    \E x \in Receivers :
        LET o == IF x = "cur" THEN cur ELSE res
        IN Navigate("nextPeriod", x, nextPeriod(heap, o, Append(o.path, "next")))

\* prevPeriod(), lines 196-198.
PrevPeriod ==
    \E x \in Receivers :
        LET o == IF x = "cur" THEN cur ELSE res
        IN Navigate("prevPeriod", x, prevPeriod(heap, o, Append(o.path, "prev")))

Next ==
    \/ NewDateRange
    \/ NewPeriodRange
    \/ FromDate
    \/ Next_
    \/ Prev
    \/ Last
    \/ EndsWith
    \/ Length
    \/ Iterate
    \/ IterNext
    \/ NextPeriod
    \/ PrevPeriod

Spec == Init /\ [][Next]_vars

\* The calls on one interval, period navigation apart.
RangeNext ==
    \/ NewDateRange
    \/ NewPeriodRange
    \/ FromDate
    \/ Next_
    \/ Prev
    \/ Last
    \/ EndsWith
    \/ Length
    \/ Iterate
    \/ IterNext

RangeSpec == Init /\ [][RangeNext]_vars

(***************************************************************************)
(* What the constructor is to produce, from its arguments alone            *)
(***************************************************************************)
FlagOr(f, default) == IF f = <<>> THEN default ELSE f[1]

AdjLower(s) ==
    IF s.lower.k # "date" THEN None
    ELSE Some(s.lower.d + (IF FlagOr(s.lowerInc, TRUE) THEN 0 ELSE 1))

AdjUpper(s) ==
    IF s.upper.k # "date" THEN None
    ELSE Some(s.upper.d + (IF FlagOr(s.upperInc, FALSE) THEN 1 ELSE 0))

CanonicalTuple(lo, up) ==
    IF lo # None /\ up # None /\ lo[1] >= up[1]
    THEN [lower |-> None, upper |-> None, lowerInc |-> FALSE, upperInc |-> FALSE,
          empty |-> TRUE]
    ELSE [lower |-> lo, upper |-> up, lowerInc |-> TRUE, upperInc |-> FALSE,
          empty |-> FALSE]

ValidOrAbsent(b) == b.k \in {"absent", "null", "date"}

\* Supplied (neither absent nor null) and no date.
SuppliedInvalid(b) == b.k \in {"falsy", "invalid"}

Constructed(ops_) == pc = "ready" /\ call.op \in ops_

Bounded(t) == t.lower # None /\ t.upper # None

\* lower, lower + 1 day, ..., upper - 1 day.
DaysOf(t) == [i \in 1..(t.upper[1] - t.lower[1]) |-> t.lower[1] + i - 1]

\* The externally readable fields of o, by value.
Fields(h, o) ==
    [lower |-> Deref(h, lower(o)), upper |-> Deref(h, upper(o)),
     lowerInc |-> lowerInc(o), upperInc |-> upperInc(o)]

FieldsOf(t) ==
    [lower |-> t.lower, upper |-> t.upper, lowerInc |-> t.lowerInc,
     upperInc |-> t.upperInc]

(***************************************************************************)
(* Claims                                                                  *)
(***************************************************************************)
\* C1: for valid-or-absent bounds and any flags, the tuple the DateRange
\* constructor produces is decided by the adjusted bounds alone: the
\* canonical empty tuple when both are present and adjLower >= adjUpper,
\* else (adjLower, adjUpper, true, false, false).
C1_CanonicalTuple ==
    (/\ Constructed({"DateRange"})
     /\ ValidOrAbsent(call.settings.lower)
     /\ ValidOrAbsent(call.settings.upper))
        => /\ TupleVal(heap, cur)
                = CanonicalTuple(AdjLower(call.settings), AdjUpper(call.settings))
           /\ built = TupleVal(heap, cur)

\* C1 witness: an exclusive lower bound is advanced onto the upper bound and
\* the interval collapses to the canonical empty tuple.
C1_Witness ==
    /\ Constructed({"DateRange"})
    /\ call.settings.lower.k = "date" /\ call.settings.upper.k = "date"
    /\ call.settings.lowerInc = <<FALSE>>
    /\ call.settings.lower.d < call.settings.upper.d
    /\ TupleVal(heap, cur).empty

\* C2 (as stated): construction raises exactly when a supplied lower or upper
\* bound is no valid date; the error names lower when lower is invalid, else
\* upper; nothing is built when it raises; absent or null bounds never raise.
C2_RaisesExactlyOnInvalid ==
    (call.op = "DateRange" /\ pc \in {"ready", "failed"})
        => /\ (pc = "failed")
                <=> (SuppliedInvalid(call.settings.lower)
                        \/ SuppliedInvalid(call.settings.upper))
           /\ pc = "failed"
                => /\ thrown = (IF SuppliedInvalid(call.settings.lower)
                                THEN "lower" ELSE "upper")
                   /\ cur = NoInstance
                   /\ heap = [r \in Refs |-> 0]

\* C3 (as stated): next, prev, last, endsWith, length, iteration, nextPeriod
\* and prevPeriod leave the interval's tuple as it was before the call
\* (here: already when next and prev are handed only dates of the caller's
\* own).
C3_CallsLeaveTuple ==
    (plain /\ call.op \in {"next", "prev", "last", "endsWith", "length", "iterator",
                           "iterator.next", "nextPeriod", "prevPeriod"})
        => TupleVal(heap, cur) = pre

\* C4 (as stated): for an interval built bounded, length() equals the number
\* of elements its iteration produces (here: in plain use, each iteration
\* run to its end before the next call).
C4_LengthIsCount ==
    (plain /\ Bounded(built) /\ it.active /\ it.done /\ lenRet.kind = "ok")
        => lenRet.n = Len(yielded)

\* C5 (as stated): for an interval built bounded, last() equals the final
\* value its iteration produces, and endsWith(last()) is true (here: in
\* plain use).
C5_LastIsFinal ==
    /\ (plain /\ Bounded(built) /\ it.active /\ it.done /\ yielded # <<>>
            /\ lastVal # None)
            => lastVal[1] = yielded[Len(yielded)]
    /\ (plain /\ Bounded(built) /\ call.op = "endsWith" /\ call.other.k = "moment")
            => ewRet = "true"

\* C6 (as stated): every completed iteration of an interval built bounded,
\* whatever calls came before it, has produced lower, lower + 1, ...,
\* upper - 1 (here: in plain use).
C6_IterationRestartable ==
    (plain /\ Bounded(built) /\ it.active /\ it.done) => yielded = DaysOf(built)

C8_NextThenPrev ==
    (plain /\ cur.cls = "PeriodRange" /\ cur.period # ""
        /\ res.path = <<"next", "prev">>)
        => /\ TupleVal(heap, res).lower = built.lower
           /\ TupleVal(heap, res).upper = built.upper
           /\ res.period = cur.period

\* C9 (as stated): endsWith(other), other a date, returns a boolean and does
\* not throw, on every DateRange.
C9_EndsWithReturns ==
    call.op = "endsWith" => (ewRet \in {"true", "false"} /\ thrown = "")

\* C10 (amended): an instance made by the DateRange constructor, the
\* PeriodRange constructor or PeriodRange.fromDate reads the fields of its
\* canonical tuple; the constructor's replace call acts on the instance for
\* a DateRange and on a derived daterange, not the instance, for a
\* PeriodRange.
C10_FieldsMirrorTuple ==
    /\ Constructed({"DateRange", "PeriodRange"})
        => /\ Fields(heap, cur)
                = FieldsOf(CanonicalTuple(AdjLower(call.settings), AdjUpper(call.settings)))
           /\ recv = (IF call.op = "DateRange" THEN "this" ELSE "this.daterange")
    /\ Constructed({"fromDate"})
        => /\ Fields(heap, cur)
                = [lower |-> Some(spanStart(call.other.d, IF call.other.k = "" THEN "day" ELSE call.other.k)),
                   upper |-> Some(spanEnd(call.other.d, IF call.other.k = "" THEN "day" ELSE call.other.k)),
                   lowerInc |-> TRUE, upperInc |-> FALSE]
           /\ recv = "this.daterange"

\* C10 witness: a PeriodRange constructed with an exclusive lower bound reads
\* the advanced bound, its replace call having gone to the derived daterange.
C10_Witness ==
    /\ Constructed({"PeriodRange"})
    /\ call.settings.lower.k = "date"
    /\ call.settings.lowerInc = <<FALSE>>
    /\ Fields(heap, cur).lower = Some(call.settings.lower.d + 1)
    /\ recv = "this.daterange"

\* C10 (as stated): the fields equal the canonical tuple's and the
\* constructor's replace call acts on the instance being constructed, also
\* for a PeriodRange.
C10_ReplaceOnInstance ==
    Constructed({"DateRange", "PeriodRange", "fromDate"})
        => /\ Fields(heap, cur) = FieldsOf(built)
           /\ recv = "this"

====
